---- MODULE Spec2Model ----
(***************************************************************************)
(* gomall: the inventory service (optimistic locking on the inventory      *)
(* table), the expired-reservation cleanup job and the order service that  *)
(* calls the inventory service, over one PostgreSQL store.                  *)
(*                                                                         *)
(* Store semantics used throughout (READ COMMITTED, the pgx default):      *)
(*  - a SELECT sees the committed rows;                                     *)
(*  - an UPDATE locks the row it matches until its transaction ends, and    *)
(*    its WHERE clause is evaluated on the latest committed row, so the     *)
(*    statements from the first UPDATE of a transaction to its COMMIT are   *)
(*    one atomic step here;                                                 *)
(*  - a query declared :exec returns only the driver error: an UPDATE that  *)
(*    matches no row returns nil;                                           *)
(*  - rows written by a transaction that has not committed are invisible to *)
(*    every other transaction, also to its foreign-key checks.              *)
(***************************************************************************)
EXTENDS Integers, Sequences, FiniteSets, Bags, TLC

\* ---------------------------------------------------------------- bounds
InitAvailable == 3
MaxQty == 1
MaxFaults == 1
MaxCodes == 2
MaxSessions == 1
\* The batch limit of the cleanup job where the expired reservations are to
\* outnumber it (ReaperLimit in the program).
BatchLimit == 1

\* ------------------------------------------------------ program constants
maxRetries == 3
ReaperLimit == 100

\* ----------------------------------------------------------------- domain
Products == {1, 2}
SeedOrders == {1, 2}
NewOrders == {3}
AllOrders == SeedOrders \cup NewOrders
Clients == {"c1", "c2"}

\* The requests each client sends, one after the other.
CallsOf == [c \in Clients |-> IF c = "c1" THEN 2 ELSE 1]
NoOrder == 0

SeedItems ==
  [o \in AllOrders |->
     IF o = 1 THEN << [product |-> 1, quantity |-> 2], [product |-> 2, quantity |-> 1] >>
     ELSE IF o = 2 THEN << [product |-> 1, quantity |-> 2] >>
     ELSE << >>]

CreateRequests == { << [product |-> 1, quantity |-> 2], [product |-> 2, quantity |-> 1] >> }

\* The user service: registered users (one email each), the passwords and the values
\* of random.GenerateCode that occur.
Users == {1, 2}
Passwords == {"p0", "p1"}
CodeValues == {"a", "b"}

\* The bodies of POST /inventory/check/batch: one or two items, each asking for one
\* unit or for more than any record holds at the start.
CheckItems == { [product |-> p, quantity |-> q] : p \in Products, q \in {1, InitAvailable + 1} }

CheckBatches ==
  { << a >> : a \in CheckItems } \cup { << a, b >> : a \in CheckItems, b \in CheckItems }

\* The order lines that the internal endpoints (reserve, release, deduct) are called for.
Lines ==
  UNION { { [product |-> SeedItems[o][i].product, quantity |-> SeedItems[o][i].quantity,
             order |-> o] : i \in 1 .. Len(SeedItems[o]) } : o \in SeedOrders }

VARIABLES
  inventory,      \* inventory rows, by product_id
  reservations,   \* inventory_reservations rows, by <<product_id, order_id>>
  logs,           \* inventory_logs rows (a bag: ids and timestamps are left out)
  orders,         \* committed orders rows: status, by id ("absent": no row)
  orderItems,     \* committed order_items rows, by order id
  nextOrderId,    \* the orders id sequence
  clock,          \* reservations with seq <= clock have expires_at < NOW()
  procs,          \* the request in progress for each client
  last,           \* the request that returned last, and its result
  reaper,         \* the cleanup job
  calls,          \* requests started, by client
  faults,         \* transactions the pool failed to begin
  supplied,       \* history: units ever made available, by product
  returned,       \* history: reservations whose units a release moved back
  users,          \* users rows: password and is_email_verified, by id
  sessions,       \* the number of sessions rows, by user_id
  verificationCodes,  \* verification_codes rows, in the order of their creation
  codeClock       \* the first codeClock verification codes have expires_at < now

vars == << inventory, reservations, logs, orders, orderItems, nextOrderId, clock,
           procs, last, reaper, calls, faults, supplied, returned,
           users, sessions, verificationCodes, codeClock >>

\* The tables of the inventory and order services, and those of the user service.
inventoryVars == << inventory, reservations, logs, orders, orderItems, nextOrderId,
                    clock, reaper, supplied, returned >>

userVars == << users, sessions, verificationCodes, codeClock >>

ResKeys == Products \X AllOrders

NoRes == [status |-> "none", quantity |-> 0, seq |-> 0]
NoRead == [available |-> 0, reserved |-> 0, version |-> 0]
NoLast == [op |-> "none", product |-> 0, quantity |-> 0, order |-> 0, err |-> "none",
           user |-> 0, code |-> "none"]

IdleProc ==
  [pc |-> "idle", op |-> "none", product |-> 0, quantity |-> 0, order |-> 0,
   rd |-> NoRead, items |-> << >>, req |-> << >>, short |-> FALSE, attempt |-> 0,
   lastErr |-> "none", checks |-> << >>, reads |-> << >>,
   user |-> 0, code |-> "none", password |-> "none", row |-> 0, deleted |-> 0]

IdleReaper == [pc |-> "idle", batch |-> << >>, rd |-> NoRead]

\* ---------------------------------------------------------------- helpers
ResCount == Cardinality({k \in ResKeys : reservations[k].status # "none"})

Expired(r) == r.seq <= clock

LogEntry(ct, p, o, qc, ba, aa, br, ar) ==
  [changeType |-> ct, product |-> p, order |-> o, quantityChange |-> qc,
   beforeAvailable |-> ba, afterAvailable |-> aa,
   beforeReserved |-> br, afterReserved |-> ar]

\* The foreign-key check of a store that sees the uncommitted rows of other
\* transactions (or of a ReserveStock that ran in its caller's transaction).
OrderRowWritten(o) == o \in AllOrders

\* inventory_reservations.order_id and inventory_logs.order_id REFERENCES orders(id):
\* the insert succeeds only when the orders row is committed.
OrderVisible(o) == o \in AllOrders /\ orders[o] # "absent"

\* An operation that leaves out its CreateInventoryLog.
Unlogged(e) == logs

Logged(e) == logs (+) SetToBag({e})

Outcome(inv, res, lg, err) == [inv |-> inv, res |-> res, logs |-> lg, err |-> err]

\* ExecTx: fn returned an error, the transaction is rolled back.
Rollback(err) == Outcome(inventory, reservations, logs, err)

\* ------------------------------------------------ inventory.sql statements
\* ReserveStock without "reserved_stock = reserved_stock + quantity".
SqlReserveKeepsReserved(p, q, v) ==
  IF inventory[p].available >= q /\ inventory[p].version = v
  THEN [inventory EXCEPT ![p] = [available |-> @.available - q,
                                 reserved |-> @.reserved,
                                 version |-> @.version + 1]]
  ELSE inventory

\* ReserveStock :exec -- the row after the UPDATE; unchanged when no row matches.
SqlReserveStock(p, q, v) ==
  IF inventory[p].available >= q /\ inventory[p].version = v
  THEN [inventory EXCEPT ![p] = [available |-> @.available - q,
                                 reserved |-> @.reserved + q,
                                 version |-> @.version + 1]]
  ELSE inventory

\* ReleaseReservedStock without "available_stock = available_stock + quantity".
SqlReleaseDropsStock(p, q, v) ==
  IF inventory[p].reserved >= q /\ inventory[p].version = v
  THEN [inventory EXCEPT ![p] = [available |-> @.available,
                                 reserved |-> @.reserved - q,
                                 version |-> @.version + 1]]
  ELSE inventory

\* ReleaseReservedStock :exec
SqlReleaseReservedStock(p, q, v) ==
  IF inventory[p].reserved >= q /\ inventory[p].version = v
  THEN [inventory EXCEPT ![p] = [available |-> @.available + q,
                                 reserved |-> @.reserved - q,
                                 version |-> @.version + 1]]
  ELSE inventory

\* DeductReservedStock without "reserved_stock >= quantity" in its WHERE clause.
SqlDeductAnyReserved(p, q, v) ==
  IF inventory[p].version = v
  THEN [inventory EXCEPT ![p] = [available |-> @.available,
                                 reserved |-> @.reserved - q,
                                 version |-> @.version + 1]]
  ELSE inventory

\* DeductReservedStock :exec
SqlDeductReservedStock(p, q, v) ==
  IF inventory[p].reserved >= q /\ inventory[p].version = v
  THEN [inventory EXCEPT ![p] = [available |-> @.available,
                                 reserved |-> @.reserved - q,
                                 version |-> @.version + 1]]
  ELSE inventory

\* AddAvailableStock without "version = version + 1" in its SET clause.
SqlAddKeepVersion(p, q) ==
  [inventory EXCEPT ![p] = [available |-> @.available + q,
                            reserved |-> @.reserved,
                            version |-> @.version]]

\* AddAvailableStock :exec -- no version guard.
SqlAddAvailableStock(p, q) ==
  [inventory EXCEPT ![p] = [available |-> @.available + q,
                            reserved |-> @.reserved,
                            version |-> @.version + 1]]

\* UpdateInventoryStock :exec
SqlUpdateInventoryStock(p, a, r, v) ==
  IF inventory[p].version = v
  THEN [inventory EXCEPT ![p] = [available |-> a, reserved |-> r,
                                 version |-> @.version + 1]]
  ELSE inventory

\* ConfirmReservation / CancelReservation without "status = 'active'" in the WHERE clause.
SqlSetAnyReservationStatus(o, st) ==
  [k \in ResKeys |->
     IF k[2] = o /\ reservations[k].status # "none"
     THEN [reservations[k] EXCEPT !.status = st]
     ELSE reservations[k]]

\* ConfirmReservation / CancelReservation :exec -- every active reservation of the order.
SqlSetReservationStatus(o, st) ==
  [k \in ResKeys |->
     IF k[2] = o /\ reservations[k].status = "active"
     THEN [reservations[k] EXCEPT !.status = st]
     ELSE reservations[k]]

SqlConfirmReservation(o) == SqlSetReservationStatus(o, "confirmed")

SqlCancelReservation(o) == SqlSetReservationStatus(o, "cancelled")

\* -------------------------------------- inventory service, transaction bodies
\* Each body runs from its first UPDATE to the end of ExecTx; rd is the row that
\* the body's GetInventoryByProductID returned earlier.

\* ReserveStock without step 2, the check of the stock it read.
ReserveTxUnchecked(p, q, o, rd) ==
  IF ~OrderVisible(o) THEN Rollback("CreateReservationFailed")
  ELSE IF reservations[<<p, o>>].status # "none" THEN Rollback("CreateReservationFailed")
  ELSE Outcome(SqlReserveStock(p, q, rd.version),
               [reservations EXCEPT ![<<p, o>>] =
                  [status |-> "active", quantity |-> q, seq |-> ResCount + 1]],
               Logged(LogEntry("reserve", p, o, q,
                                     rd.available, rd.available - q,
                                     rd.reserved, rd.reserved + q)),
               "ok")

\* ReserveStock on a table without UNIQUE(product_id, order_id): the insert of a
\* second row for the pair succeeds (the row read back for the pair is the new one).
ReserveTxNoUnique(p, q, o, rd) ==
  IF rd.available < q THEN Rollback("InsufficientStock")
  ELSE IF ~OrderVisible(o) THEN Rollback("CreateReservationFailed")
  ELSE Outcome(SqlReserveStock(p, q, rd.version),
               [reservations EXCEPT ![<<p, o>>] =
                  [status |-> "active", quantity |-> q, seq |-> ResCount + 1]],
               Logged(LogEntry("reserve", p, o, q,
                                     rd.available, rd.available - q,
                                     rd.reserved, rd.reserved + q)),
               "ok")

\* ReserveStock, steps 2-5.
ReserveTx(p, q, o, rd) ==
  IF rd.available < q THEN Rollback("InsufficientStock")
  ELSE IF ~OrderVisible(o) THEN Rollback("CreateReservationFailed")
  ELSE IF reservations[<<p, o>>].status # "none" THEN Rollback("CreateReservationFailed")
  ELSE Outcome(SqlReserveStock(p, q, rd.version),
               [reservations EXCEPT ![<<p, o>>] =
                  [status |-> "active", quantity |-> q, seq |-> ResCount + 1]],
               Logged(LogEntry("reserve", p, o, q,
                                     rd.available, rd.available - q,
                                     rd.reserved, rd.reserved + q)),
               "ok")

\* ReleaseStock, steps 2-4.
ReleaseTx(p, q, o, rd) ==
  IF ~OrderVisible(o) THEN Rollback("CreateLogFailed")
  ELSE Outcome(SqlReleaseReservedStock(p, q, rd.version),
               SqlCancelReservation(o),
               Logged(LogEntry("release", p, o, -q,
                                     rd.available, rd.available + q,
                                     rd.reserved, rd.reserved - q)),
               "ok")

\* DeductStock, steps 2-4.
DeductTx(p, q, o, rd) ==
  IF ~OrderVisible(o) THEN Rollback("CreateLogFailed")
  ELSE Outcome(SqlDeductReservedStock(p, q, rd.version),
               SqlConfirmReservation(o),
               Logged(LogEntry("deduct", p, o, -q,
                                     rd.available, rd.available,
                                     rd.reserved, rd.reserved - q)),
               "ok")

\* RestockInventory that writes the sum it computed from its read, in place of
\* "available_stock = available_stock + quantity".
RestockTxFromRead(p, q, o, rd) ==
  Outcome([inventory EXCEPT ![p] = [available |-> rd.available + q,
                                    reserved |-> @.reserved,
                                    version |-> @.version + 1]],
          reservations,
          Logged(LogEntry("restock", p, NoOrder, q,
                                rd.available, rd.available + q,
                                rd.reserved, rd.reserved)),
          "ok")

\* RestockInventory, steps 2-3.
RestockTx(p, q, o, rd) ==
  Outcome(SqlAddAvailableStock(p, q),
          reservations,
          Logged(LogEntry("restock", p, NoOrder, q,
                                rd.available, rd.available + q,
                                rd.reserved, rd.reserved)),
          "ok")

\* AdjustStock, steps 2-4 (q is the signed adjustment).
AdjustTx(p, q, o, rd) ==
  IF rd.available + q < 0 THEN Rollback("NegativeStock")
  ELSE Outcome(SqlUpdateInventoryStock(p, rd.available + q, rd.reserved, rd.version),
               reservations,
               Logged(LogEntry("adjust", p, NoOrder, q,
                                     rd.available, rd.available + q,
                                     rd.reserved, rd.reserved)),
               "ok")

InventoryOps == {"reserve", "release", "deduct", "restock", "adjust"}

InventoryTx(op, p, q, o, rd) ==
  CASE op = "reserve" -> ReserveTx(p, q, o, rd)
    [] op = "release" -> ReleaseTx(p, q, o, rd)
    [] op = "deduct"  -> DeductTx(p, q, o, rd)
    [] op = "restock" -> RestockTx(p, q, o, rd)
    [] op = "adjust"  -> AdjustTx(p, q, o, rd)

\* Units that the body made available for sale (history only).
Supply(op, p, q, out) ==
  IF out.err = "ok" /\ op \in {"restock", "adjust"} /\ q > 0
     /\ out.inv[p].version # inventory[p].version
  THEN [supplied EXCEPT ![p] = @ + q]
  ELSE supplied

\* The reservations whose units the release moved from reserved to available
\* (history only).
Returns(op, p, o, out) ==
  IF op = "release" /\ out.err = "ok" /\ out.inv # inventory
     /\ reservations[<<p, o>>].status = "active"
  THEN returned \cup {<<p, o>>}
  ELSE returned

\* ------------------------------------------------------------------ state
\* No reservation has been made yet.
Fresh ==
  /\ inventory = [p \in Products |->
                    [available |-> InitAvailable, reserved |-> 0, version |-> 0]]
  /\ reservations = [k \in ResKeys |-> NoRes]
  /\ logs = EmptyBag

\* The orders rows of SeedOrders are in the table; only restock and adjust work
\* without one (order_id is a foreign key of reservations and logs).
Init ==
  /\ Fresh
  /\ orders = [o \in AllOrders |-> IF o \in SeedOrders THEN "pending" ELSE "absent"]
  /\ orderItems = SeedItems
  /\ nextOrderId = 3
  /\ clock = 0
  /\ procs = [c \in Clients |-> IdleProc]
  /\ last = NoLast
  /\ reaper = IdleReaper
  /\ calls = [c \in Clients |-> 0]
  /\ faults = 0
  /\ supplied = [p \in Products |-> InitAvailable]
  /\ returned = {}
  /\ users = [u \in Users |-> [password |-> "p0", isEmailVerified |-> FALSE]]
  /\ sessions = [u \in Users |-> 0]
  /\ verificationCodes = << >>
  /\ codeClock = 0

\* store.connPool.Begin may fail ("failed to begin transaction").
BeginOutcomes == IF faults < MaxFaults THEN {TRUE, FALSE} ELSE {TRUE}

Faulted(ok) == IF ok THEN faults ELSE faults + 1

Result(op, p, q, o, err) ==
  [op |-> op, product |-> p, quantity |-> q, order |-> o, err |-> err,
   user |-> 0, code |-> "none"]

\* The call of client c returns res.
Return(c, res) ==
  /\ procs' = [procs EXCEPT ![c] = IdleProc]
  /\ last' = res

ReturnErr(c, err) ==
  Return(c, Result(procs[c].op, procs[c].product, procs[c].quantity, procs[c].order, err))

\* The call of client c goes on as rec.
Continue(c, rec) ==
  /\ procs' = [procs EXCEPT ![c] = rec]
  /\ UNCHANGED last

Apply(out) ==
  /\ inventory' = out.inv
  /\ reservations' = out.res
  /\ logs' = out.logs

Requests ==
  { [op |-> op, product |-> l.product, quantity |-> l.quantity, order |-> l.order] :
      op \in {"reserve", "release", "deduct"}, l \in Lines }
  \cup { [op |-> "restock", product |-> p, quantity |-> q, order |-> NoOrder] :
           p \in Products, q \in 1 .. MaxQty }
  \cup { [op |-> "adjust", product |-> p, quantity |-> q, order |-> NoOrder] :
           p \in Products, q \in {d \in -MaxQty .. MaxQty : d # 0} }

\* ------------------------------------------- inventory service, direct calls
\* ExecTx begins and the body reads the inventory row.
InventoryBegin(c) ==
  /\ procs[c].pc = "idle"
  /\ calls[c] < CallsOf[c]
  /\ \E r \in Requests, ok \in BeginOutcomes :
       /\ IF ok
          THEN Continue(c, [IdleProc EXCEPT !.pc = "commit", !.op = r.op,
                              !.product = r.product, !.quantity = r.quantity,
                              !.order = r.order, !.rd = inventory[r.product]])
          ELSE Return(c, Result(r.op, r.product, r.quantity, r.order, "BeginFailed"))
       /\ faults' = Faulted(ok)
  /\ calls' = [calls EXCEPT ![c] = @ + 1]
  /\ UNCHANGED << userVars, inventory, reservations, logs, orders, orderItems, nextOrderId,
                  clock, reaper, supplied, returned >>

\* The rest of the body, and the commit or rollback of ExecTx.
InventoryCommit(c) ==
  /\ procs[c].pc = "commit"
  /\ LET r == procs[c]
         out == InventoryTx(r.op, r.product, r.quantity, r.order, r.rd)
     IN /\ Apply(out)
        /\ supplied' = Supply(r.op, r.product, r.quantity, out)
        /\ returned' = Returns(r.op, r.product, r.order, out)
        /\ ReturnErr(c, out.err)
  /\ UNCHANGED << userVars, orders, orderItems, nextOrderId, clock, reaper, calls, faults >>

\* ------------------------------------------------------------ cleanup job
RECURSIVE ByExpiry(_)
ByExpiry(ks) ==
  IF ks = {} THEN << >>
  ELSE LET k == CHOOSE x \in ks : \A y \in ks : reservations[x].seq <= reservations[y].seq
       IN << [product |-> k[1], order |-> k[2], quantity |-> reservations[k].quantity] >>
          \o ByExpiry(ks \ {k})

FirstN(s, n) == IF Len(s) <= n THEN s ELSE SubSeq(s, 1, n)

\* GetExpiredReservations(limit)
GetExpiredReservations(n) ==
  FirstN(ByExpiry({k \in ResKeys : reservations[k].status = "active"
                                   /\ Expired(reservations[k])}), n)

\* Time passes: the oldest unexpired reservation reaches its expires_at.
Elapse ==
  /\ clock < ResCount
  /\ clock' = clock + 1
  /\ UNCHANGED << userVars, inventory, reservations, logs, orders, orderItems, nextOrderId,
                  procs, last, reaper, calls, faults, supplied, returned >>

\* CleanupExpiredReservations: the fetch.
ReaperFetch ==
  /\ reaper.pc = "idle"
  /\ GetExpiredReservations(ReaperLimit) # << >>
  /\ reaper' = [pc |-> "loop", batch |-> GetExpiredReservations(ReaperLimit), rd |-> NoRead]
  /\ UNCHANGED << userVars, inventory, reservations, logs, orders, orderItems, nextOrderId,
                  clock, procs, last, calls, faults, supplied, returned >>

AfterItem(rest) == [pc |-> IF rest = << >> THEN "idle" ELSE "loop", batch |-> rest, rd |-> NoRead]

\* A loop that returns at the first ReleaseStock error.
ReaperAborts(rest) == IdleReaper

\* ReleaseStock returned an error: it is printed and the loop goes on.
ReaperSkips(rest) == AfterItem(rest)

\* ReleaseStock for the next fetched reservation: ExecTx begins, the row is read.
ReaperRead ==
  /\ reaper.pc = "loop"
  /\ \E ok \in BeginOutcomes :
       /\ reaper' = IF ok
                    THEN [reaper EXCEPT !.pc = "commit",
                                        !.rd = inventory[Head(reaper.batch).product]]
                    ELSE ReaperSkips(Tail(reaper.batch))
       /\ faults' = Faulted(ok)
  /\ UNCHANGED << userVars, inventory, reservations, logs, orders, orderItems, nextOrderId,
                  clock, procs, last, calls, supplied, returned >>

\* The rest of ReleaseStock; its error is printed and the loop goes on.
ReaperCommit ==
  /\ reaper.pc = "commit"
  /\ LET r == Head(reaper.batch)
         out == ReleaseTx(r.product, r.quantity, r.order, reaper.rd)
     IN /\ Apply(out)
        /\ returned' = Returns("release", r.product, r.order, out)
  /\ reaper' = AfterItem(Tail(reaper.batch))
  /\ UNCHANGED << userVars, orders, orderItems, nextOrderId, clock, procs, last, calls, faults,
                  supplied >>


\* CleanupExpiredReservations: the fetch, with BatchLimit as the limit.
ReaperFetchBatch ==
  /\ reaper.pc = "idle"
  /\ GetExpiredReservations(BatchLimit) # << >>
  /\ reaper' = [pc |-> "loop", batch |-> GetExpiredReservations(BatchLimit), rd |-> NoRead]
  /\ UNCHANGED << userVars, inventory, reservations, logs, orders, orderItems, nextOrderId,
                  clock, procs, last, calls, faults, supplied, returned >>

\* ReleaseStock for the next fetched reservation, where ExecTx may fail to begin
\* any number of times.
ReaperReadOrFail ==
  /\ reaper.pc = "loop"
  /\ \E ok \in {TRUE, FALSE} :
       reaper' = IF ok
                 THEN [reaper EXCEPT !.pc = "commit",
                                     !.rd = inventory[Head(reaper.batch).product]]
                 ELSE ReaperSkips(Tail(reaper.batch))
  /\ UNCHANGED << userVars, inventory, reservations, logs, orders, orderItems, nextOrderId,
                  clock, procs, last, calls, faults, supplied, returned >>

\* ---------------------------------------------------------- order service
NextItem(c, pc) == [procs[c] EXCEPT !.pc = pc, !.items = Tail(@), !.rd = NoRead]

ReadItem(c, pc) ==
  [procs[c] EXCEPT !.pc = pc, !.rd = inventory[Head(procs[c].items).product]]

\* PayOrder: ExecTx begins, the order is read and checked, its items are read.
PayBegin(c) ==
  /\ procs[c].pc = "idle"
  /\ calls[c] < CallsOf[c]
  /\ \E o \in AllOrders, ok \in BeginOutcomes :
       /\ IF ~ok THEN Return(c, Result("pay", 0, 0, o, "BeginFailed"))
          ELSE IF orders[o] = "absent" THEN Return(c, Result("pay", 0, 0, o, "OrderNotFound"))
          ELSE IF orders[o] # "pending" THEN Return(c, Result("pay", 0, 0, o, "CannotPay"))
          ELSE Continue(c, [IdleProc EXCEPT !.pc = "pay_loop", !.op = "pay",
                              !.order = o, !.items = orderItems[o]])
       /\ faults' = Faulted(ok)
  /\ calls' = [calls EXCEPT ![c] = @ + 1]
  /\ UNCHANGED << userVars, inventory, reservations, logs, orders, orderItems, nextOrderId,
                  clock, reaper, supplied, returned >>

\* PayOrder: the loop head. After the last item the order row is updated and the
\* transaction commits; otherwise DeductStock begins its own ExecTx and reads the row.
PayLoop(c) ==
  /\ procs[c].pc = "pay_loop"
  /\ IF procs[c].items = << >>
     THEN /\ orders' = [orders EXCEPT ![procs[c].order] = "paid"]
          /\ ReturnErr(c, "ok")
          /\ UNCHANGED faults
     ELSE /\ \E ok \in BeginOutcomes :
               /\ IF ok THEN Continue(c, ReadItem(c, "pay_commit"))
                  ELSE ReturnErr(c, "DeductFailed")
               /\ faults' = Faulted(ok)
          /\ UNCHANGED orders
  /\ UNCHANGED << userVars, inventory, reservations, logs, orderItems, nextOrderId, clock,
                  reaper, calls, supplied, returned >>

\* PayOrder: the rest of DeductStock for the current item.
PayCommit(c) ==
  /\ procs[c].pc = "pay_commit"
  /\ LET it == Head(procs[c].items)
         out == DeductTx(it.product, it.quantity, procs[c].order, procs[c].rd)
     IN /\ Apply(out)
        /\ IF out.err = "ok" THEN Continue(c, NextItem(c, "pay_loop"))
           ELSE ReturnErr(c, "DeductFailed")
  /\ UNCHANGED << userVars, orders, orderItems, nextOrderId, clock, reaper, calls, faults, supplied, returned >>

\* CancelOrder: ExecTx begins, the order is read and checked, its items are read.
\* payment_status is 'unpaid' on every order row: nothing here writes it.
CancelBegin(c) ==
  /\ procs[c].pc = "idle"
  /\ calls[c] < CallsOf[c]
  /\ \E o \in AllOrders, ok \in BeginOutcomes :
       /\ IF ~ok THEN Return(c, Result("cancel", 0, 0, o, "BeginFailed"))
          ELSE IF orders[o] = "absent"
               THEN Return(c, Result("cancel", 0, 0, o, "OrderNotFound"))
          ELSE IF orders[o] \in {"completed", "cancelled"}
               THEN Return(c, Result("cancel", 0, 0, o, "CannotCancel"))
          ELSE Continue(c, [IdleProc EXCEPT !.pc = "cancel_loop", !.op = "cancel",
                  !.order = o,
                  !.items = IF orders[o] = "pending" THEN orderItems[o] ELSE << >>])
       /\ faults' = Faulted(ok)
  /\ calls' = [calls EXCEPT ![c] = @ + 1]
  /\ UNCHANGED << userVars, inventory, reservations, logs, orders, orderItems, nextOrderId,
                  clock, reaper, supplied, returned >>

\* CancelOrder: the loop head. After the last item the order row is cancelled;
\* otherwise ReleaseStock begins its own ExecTx (a failure is printed and skipped).
CancelLoop(c) ==
  /\ procs[c].pc = "cancel_loop"
  /\ IF procs[c].items = << >>
     THEN /\ orders' = [orders EXCEPT ![procs[c].order] = "cancelled"]
          /\ ReturnErr(c, "ok")
          /\ UNCHANGED faults
     ELSE /\ \E ok \in BeginOutcomes :
               /\ IF ok THEN Continue(c, ReadItem(c, "cancel_commit"))
                  ELSE Continue(c, NextItem(c, "cancel_loop"))
               /\ faults' = Faulted(ok)
          /\ UNCHANGED orders
  /\ UNCHANGED << userVars, inventory, reservations, logs, orderItems, nextOrderId, clock,
                  reaper, calls, supplied, returned >>

\* CancelOrder: the rest of ReleaseStock for the current item; its error is printed.
CancelCommit(c) ==
  /\ procs[c].pc = "cancel_commit"
  /\ LET it == Head(procs[c].items)
         out == ReleaseTx(it.product, it.quantity, procs[c].order, procs[c].rd)
     IN /\ Apply(out)
        /\ returned' = Returns("release", it.product, procs[c].order, out)
  /\ Continue(c, NextItem(c, "cancel_loop"))
  /\ UNCHANGED << userVars, orders, orderItems, nextOrderId, clock, reaper, calls, faults, supplied >>

\* ShipOrder: ExecTx begins, the order is read and its status checked.
ShipBegin(c) ==
  /\ procs[c].pc = "idle"
  /\ calls[c] < CallsOf[c]
  /\ \E o \in AllOrders, ok \in BeginOutcomes :
       /\ IF ~ok THEN Return(c, Result("ship", 0, 0, o, "BeginFailed"))
          ELSE IF orders[o] = "absent" THEN Return(c, Result("ship", 0, 0, o, "OrderNotFound"))
          ELSE IF orders[o] # "paid" THEN Return(c, Result("ship", 0, 0, o, "CannotShip"))
          ELSE Continue(c, [IdleProc EXCEPT !.pc = "ship_commit", !.op = "ship", !.order = o])
       /\ faults' = Faulted(ok)
  /\ calls' = [calls EXCEPT ![c] = @ + 1]
  /\ UNCHANGED << userVars, inventory, reservations, logs, orders, orderItems, nextOrderId,
                  clock, reaper, supplied, returned >>

\* ShipOrder: UpdateOrderStatus(shipped) by id, and the commit.
ShipCommit(c) ==
  /\ procs[c].pc = "ship_commit"
  /\ orders' = [orders EXCEPT ![procs[c].order] = "shipped"]
  /\ ReturnErr(c, "ok")
  /\ UNCHANGED << userVars, inventory, reservations, logs, orderItems, nextOrderId, clock,
                  reaper, calls, faults, supplied, returned >>

\* CompleteOrder: ExecTx begins, the order is read and its status checked.
CompleteBegin(c) ==
  /\ procs[c].pc = "idle"
  /\ calls[c] < CallsOf[c]
  /\ \E o \in AllOrders, ok \in BeginOutcomes :
       /\ IF ~ok THEN Return(c, Result("complete", 0, 0, o, "BeginFailed"))
          ELSE IF orders[o] = "absent"
               THEN Return(c, Result("complete", 0, 0, o, "OrderNotFound"))
          ELSE IF orders[o] # "shipped"
               THEN Return(c, Result("complete", 0, 0, o, "CannotComplete"))
          ELSE Continue(c, [IdleProc EXCEPT !.pc = "complete_commit", !.op = "complete",
                              !.order = o])
       /\ faults' = Faulted(ok)
  /\ calls' = [calls EXCEPT ![c] = @ + 1]
  /\ UNCHANGED << userVars, inventory, reservations, logs, orders, orderItems, nextOrderId,
                  clock, reaper, supplied, returned >>

\* CompleteOrder: UpdateOrderStatus(completed) by id, and the commit.
CompleteCommit(c) ==
  /\ procs[c].pc = "complete_commit"
  /\ orders' = [orders EXCEPT ![procs[c].order] = "completed"]
  /\ ReturnErr(c, "ok")
  /\ UNCHANGED << userVars, inventory, reservations, logs, orderItems, nextOrderId, clock,
                  reaper, calls, faults, supplied, returned >>

\* The values that the binding of UpdateOrderStatusRequest.Status lets through.
OrderStatuses == {"pending", "paid", "shipped", "completed", "cancelled", "refunded"}

\* UpdateOrderStatus (PUT /orders/:id/status): the order is looked up, then its
\* status is set to the requested value; no transaction, no check of the old status.
UpdateOrderStatus(c) ==
  /\ procs[c].pc = "idle"
  /\ calls[c] < CallsOf[c]
  /\ \E o \in AllOrders, st \in OrderStatuses :
       IF orders[o] = "absent"
       THEN /\ Return(c, Result("update_status", 0, 0, o, "OrderNotFound"))
            /\ UNCHANGED orders
       ELSE /\ orders' = [orders EXCEPT ![o] = st]
            /\ Return(c, Result("update_status", 0, 0, o, "ok"))
  /\ calls' = [calls EXCEPT ![c] = @ + 1]
  /\ UNCHANGED << userVars, inventory, reservations, logs, orderItems, nextOrderId, clock,
                  reaper, faults, supplied, returned >>

\* A test that also matches the text of ErrInsufficientStock.
RetryableOrShort(err) == err \in {"ReserveFailed", "InsufficientStock"}

\* CreateOrder retries an attempt whose error text names a concurrent update.
Retryable(err) == err = "ReserveFailed"

\* CreateOrder's loop with "attempt <= maxRetries" as its condition.
CreateFailedOneMore(c, err) ==
  IF err \in {"ReserveFailed"}
  THEN IF procs[c].attempt <= maxRetries
       THEN Continue(c, [procs[c] EXCEPT !.pc = "co_check", !.items = procs[c].req,
                           !.rd = NoRead, !.short = FALSE, !.order = 0, !.attempt = @ + 1,
                           !.lastErr = err])
       ELSE ReturnErr(c, "FailedAfterRetries")
  ELSE ReturnErr(c, err)

\* The end of a failed attempt of createOrderWithRetry, in CreateOrder's loop.
CreateFailed(c, err) ==
  IF Retryable(err)
  THEN IF procs[c].attempt < maxRetries
       THEN Continue(c, [procs[c] EXCEPT !.pc = "co_check", !.items = procs[c].req,
                           !.rd = NoRead, !.short = FALSE, !.order = 0, !.attempt = @ + 1,
                           !.lastErr = err])
       ELSE ReturnErr(c, "FailedAfterRetries")
  ELSE ReturnErr(c, err)

Creating == {c \in Clients : procs[c].pc = "co_check"}

\* CreateOrder: the request arrives (its products exist in the catalogue).
CreateBegin(c) ==
  /\ procs[c].pc = "idle"
  /\ calls[c] < CallsOf[c]
  /\ nextOrderId + Cardinality(Creating) \in NewOrders
  /\ \E req \in CreateRequests :
       Continue(c, [IdleProc EXCEPT !.pc = "co_check", !.op = "create",
                      !.items = req, !.req = req, !.attempt = 1])
  /\ calls' = [calls EXCEPT ![c] = @ + 1]
  /\ UNCHANGED << userVars, inventory, reservations, logs, orders, orderItems, nextOrderId,
                  clock, reaper, faults, supplied, returned >>

\* CreateOrder: BatchCheckStockAvailability, one read per item (the products of a
\* request in CreateRequests are distinct, so the map of responses has one entry per
\* item and short is whether one of them is not available); after the last one
\* the attempt fails on a short item, or ExecTx begins and the order and its items
\* are inserted (uncommitted, so in no table here).
CreateCheck(c) ==
  /\ procs[c].pc = "co_check"
  /\ IF procs[c].items # << >>
     THEN /\ LET it == Head(procs[c].items)
             IN Continue(c, [procs[c] EXCEPT !.items = Tail(@),
                   !.short = @ \/ ~(inventory[it.product].available >= it.quantity)])
          /\ UNCHANGED << nextOrderId, faults >>
     ELSE IF procs[c].short
     THEN /\ CreateFailed(c, "InsufficientStock")
          /\ UNCHANGED << nextOrderId, faults >>
     ELSE \E ok \in BeginOutcomes :
            /\ IF ok
               THEN Continue(c, [procs[c] EXCEPT !.pc = "co_loop",
                                   !.items = procs[c].req, !.order = nextOrderId])
               ELSE CreateFailed(c, "BeginFailed")
            /\ nextOrderId' = IF ok THEN nextOrderId + 1 ELSE nextOrderId
            /\ faults' = Faulted(ok)
  /\ UNCHANGED << userVars, inventory, reservations, logs, orders, orderItems, clock, reaper,
                  calls, supplied, returned >>

\* CreateOrder: the loop head. After the last item the transaction commits the
\* order and its items; otherwise ReserveStock begins its own ExecTx and reads.
CreateLoop(c) ==
  /\ procs[c].pc = "co_loop"
  /\ IF procs[c].items = << >>
     THEN /\ orders' = [orders EXCEPT ![procs[c].order] = "pending"]
          /\ orderItems' = [orderItems EXCEPT ![procs[c].order] = procs[c].req]
          /\ ReturnErr(c, "ok")
          /\ UNCHANGED faults
     ELSE /\ \E ok \in BeginOutcomes :
               /\ IF ok THEN Continue(c, ReadItem(c, "co_commit"))
                  ELSE CreateFailed(c, "BeginFailed")
               /\ faults' = Faulted(ok)
          /\ UNCHANGED << orders, orderItems >>
  /\ UNCHANGED << userVars, inventory, reservations, logs, nextOrderId, clock, reaper, calls,
                  supplied, returned >>

\* CreateOrder: the rest of ReserveStock for the current item. Its UPDATE may return
\* a driver error (connection lost, deadline), which ReserveStock reports as
\* "failed to reserve stock (possible concurrent update)".
CreateCommit(c) ==
  /\ procs[c].pc = "co_commit"
  /\ \E updated \in BOOLEAN :
       LET it == Head(procs[c].items)
           out == IF updated \/ procs[c].rd.available < it.quantity
                  THEN ReserveTx(it.product, it.quantity, procs[c].order, procs[c].rd)
                  ELSE Rollback("ReserveFailed")
       IN /\ Apply(out)
          /\ IF out.err = "ok" THEN Continue(c, NextItem(c, "co_loop"))
             ELSE CreateFailed(c, out.err)
  /\ UNCHANGED << userVars, orders, orderItems, nextOrderId, clock, reaper, calls, faults, supplied, returned >>

\* ----------------------------------------------------------- stock checks
\* CheckStockAvailability: the response built from the row as it is read.
CheckStockAvailability(p, q) ==
  [product |-> p, available |-> inventory[p].available,
   reserved |-> inventory[p].reserved,
   isAvailable |-> inventory[p].available >= q, requestedQty |-> q]

\* result[item.ProductID] = check
Put(m, k, v) == [x \in DOMAIN m \cup {k} |-> IF x = k THEN v ELSE m[x]]

\* BatchCheckStockAvailability: the call arrives, result is an empty map.
BatchCheckBegin(c) ==
  /\ procs[c].pc = "idle"
  /\ calls[c] < CallsOf[c]
  /\ \E items \in CheckBatches :
       Continue(c, [IdleProc EXCEPT !.pc = "check", !.op = "check",
                      !.items = items, !.req = items])
  /\ calls' = [calls EXCEPT ![c] = @ + 1]
  /\ UNCHANGED << userVars, inventory, reservations, logs, orders, orderItems, nextOrderId,
                  clock, reaper, faults, supplied, returned >>

\* BatchCheckStockAvailability: CheckStockAvailability for the next item, outside
\* any transaction; its response is stored under the item's product id. reads
\* keeps the available stock that each item's read returned (history only).
BatchCheckItem(c) ==
  /\ procs[c].pc = "check"
  /\ procs[c].items # << >>
  /\ LET it == Head(procs[c].items)
     IN Continue(c, [procs[c] EXCEPT
                       !.items = Tail(@),
                       !.checks = Put(@, it.product,
                                      CheckStockAvailability(it.product, it.quantity)),
                       !.reads = Append(@, inventory[it.product].available)])
  /\ UNCHANGED << userVars, inventory, reservations, logs, orders, orderItems, nextOrderId,
                  clock, reaper, calls, faults, supplied, returned >>

\* BatchCheckStockAvailability returns the map.
BatchCheckReturn(c) ==
  /\ procs[c].pc = "check"
  /\ procs[c].items = << >>
  /\ ReturnErr(c, "ok")
  /\ UNCHANGED << userVars, inventory, reservations, logs, orders, orderItems, nextOrderId,
                  clock, reaper, calls, faults, supplied, returned >>

\* ------------------------------------------------- ExecTx, with its failures
\* tx.Rollback and tx.Commit may fail (a cancelled context, a lost connection).
EndOutcomes == IF faults < MaxFaults THEN {TRUE, FALSE} ELSE {TRUE}

\* SQLStore.ExecTx after fn has returned out.err with the writes out: ended is
\* whether the Rollback or Commit that follows succeeds. A transaction that is not
\* committed leaves no write.
ExecTx(out, ended) ==
  IF out.err # "ok"
  THEN Rollback(IF ended THEN out.err ELSE "TxErrRollbackErr")
  ELSE IF ended THEN out ELSE Rollback("CommitFailed")

\* The error that ExecTx returns for a transaction of the user service.
ExecTxErr(err, ended) ==
  IF err # "ok" THEN (IF ended THEN err ELSE "TxErrRollbackErr")
  ELSE IF ended THEN "ok" ELSE "CommitFailed"

\* A direct call of the inventory service: its body, then the end of ExecTx.
ExecTxEnd(c) ==
  /\ procs[c].pc = "commit"
  /\ \E ended \in EndOutcomes :
       LET r == procs[c]
           out == ExecTx(InventoryTx(r.op, r.product, r.quantity, r.order, r.rd), ended)
       IN /\ Apply(out)
          /\ supplied' = Supply(r.op, r.product, r.quantity, out)
          /\ returned' = Returns(r.op, r.product, r.order, out)
          /\ ReturnErr(c, out.err)
          /\ faults' = Faulted(ended)
  /\ UNCHANGED << userVars, orders, orderItems, nextOrderId, clock, reaper, calls >>

\* ------------------------------------------------------------ user service
\* Passwords are kept as what HashPassword was given: VerifyPassword accepts a hash
\* exactly for the password it was made from.

Outcomes(n) == IF n < MaxFaults THEN {TRUE, FALSE} ELSE {TRUE}

UserResult(op, u, code, err) ==
  [op |-> op, product |-> 0, quantity |-> 0, order |-> 0, err |-> err,
   user |-> u, code |-> code]

\* time.Now().After(expires_at), for the i-th row: every code lives 15 minutes, so
\* the rows expire in the order of their creation.
CodeExpired(i) == i <= codeClock

\* GetVerificationCode without "is_used = FALSE" in its WHERE clause.
GetAnyVerificationCode(u, code, type) ==
  {i \in 1 .. Len(verificationCodes) :
     /\ verificationCodes[i].user = u
     /\ verificationCodes[i].code = code
     /\ verificationCodes[i].type = type}

\* GetVerificationCode :one -- the rows that match; LIMIT 1 without ORDER BY returns
\* any one of them.
GetVerificationCode(u, code, type) ==
  {i \in 1 .. Len(verificationCodes) :
     /\ verificationCodes[i].user = u
     /\ verificationCodes[i].code = code
     /\ verificationCodes[i].type = type
     /\ ~verificationCodes[i].isUsed}

\* CreateVerificationCode
CreateVerificationCode(u, code, type) ==
  Append(verificationCodes, [user |-> u, code |-> code, type |-> type, isUsed |-> FALSE])

\* Login: GetUserByEmail and VerifyPassword.
Login(c) ==
  /\ procs[c].pc = "idle"
  /\ calls[c] < CallsOf[c]
  /\ \E u \in Users, pw \in Passwords :
       IF users[u].password = pw
       THEN Continue(c, [IdleProc EXCEPT !.pc = "l_session", !.op = "login", !.user = u])
       ELSE Return(c, UserResult("login", u, "none", "InvalidCredentials"))
  /\ calls' = [calls EXCEPT ![c] = @ + 1]
  /\ UNCHANGED << inventoryVars, userVars, faults >>

\* Login: CreateSession.
CreateSession(c) ==
  /\ procs[c].pc = "l_session"
  /\ sessions[procs[c].user] < MaxSessions
  /\ sessions' = [sessions EXCEPT ![procs[c].user] = @ + 1]
  /\ Return(c, UserResult("login", procs[c].user, "none", "ok"))
  /\ UNCHANGED << inventoryVars, users, verificationCodes, codeClock, calls, faults >>

\* ForgotPassword for the email of a registered user.
ForgotPassword(c) ==
  /\ procs[c].pc = "idle"
  /\ calls[c] < CallsOf[c]
  /\ Len(verificationCodes) < MaxCodes
  /\ \E u \in Users, code \in CodeValues :
       /\ verificationCodes' = CreateVerificationCode(u, code, "password_reset")
       /\ Return(c, UserResult("forgot", u, code, "ok"))
  /\ calls' = [calls EXCEPT ![c] = @ + 1]
  /\ UNCHANGED << inventoryVars, users, sessions, codeClock, faults >>

\* SendEmailVerification for the email of a registered user.
SendEmailVerification(c) ==
  /\ procs[c].pc = "idle"
  /\ calls[c] < CallsOf[c]
  /\ Len(verificationCodes) < MaxCodes
  /\ \E u \in Users, code \in CodeValues :
       IF users[u].isEmailVerified
       THEN /\ Return(c, UserResult("send", u, "none", "AlreadyVerified"))
            /\ UNCHANGED verificationCodes
       ELSE /\ verificationCodes' = CreateVerificationCode(u, code, "email_verification")
            /\ Return(c, UserResult("send", u, code, "ok"))
  /\ calls' = [calls EXCEPT ![c] = @ + 1]
  /\ UNCHANGED << inventoryVars, users, sessions, codeClock, faults >>

\* Steps 1-2 of VerifyEmail and ResetPassword (and the hashing of the new password):
\* the code is looked up and its expiry is checked, before any transaction.
CheckCode(c, op, type, u, code, pw) ==
  LET found == GetVerificationCode(u, code, type)
  IN IF found = {}
     THEN Return(c, UserResult(op, u, code, "InvalidCode"))
     ELSE \E i \in found :
            IF CodeExpired(i)
            THEN Return(c, UserResult(op, u, code, "CodeExpired"))
            ELSE Continue(c, [IdleProc EXCEPT !.pc = "u_begin", !.op = op,
                                !.user = verificationCodes[i].user, !.code = code,
                                !.password = pw, !.row = i])

VerifyEmail(c) ==
  /\ procs[c].pc = "idle"
  /\ calls[c] < CallsOf[c]
  /\ \E u \in Users, code \in CodeValues :
       CheckCode(c, "verify", "email_verification", u, code, "none")
  /\ calls' = [calls EXCEPT ![c] = @ + 1]
  /\ UNCHANGED << inventoryVars, userVars, faults >>

ResetPassword(c) ==
  /\ procs[c].pc = "idle"
  /\ calls[c] < CallsOf[c]
  /\ \E u \in Users, code \in CodeValues, pw \in Passwords :
       CheckCode(c, "reset", "password_reset", u, code, pw)
  /\ calls' = [calls EXCEPT ![c] = @ + 1]
  /\ UNCHANGED << inventoryVars, userVars, faults >>

\* ExecTx of VerifyEmail and ResetPassword: Begin.
UserTxBegin(c) ==
  /\ procs[c].pc = "u_begin"
  /\ \E ok \in BeginOutcomes :
       /\ IF ok THEN Continue(c, [procs[c] EXCEPT !.pc = "u_body"])
          ELSE Return(c, UserResult(procs[c].op, procs[c].user, procs[c].code,
                                    "BeginFailed"))
       /\ faults' = Faulted(ok)
  /\ UNCHANGED << inventoryVars, userVars, calls >>

\* Another transaction holds the row lock of user u (its UPDATE has run and it has
\* not ended).
RowLocked(u) == \E d \in Clients : procs[d].pc = "u_commit" /\ procs[d].user = u

\* A ResetPassword whose UpdateUserPassword runs on the pool, outside the transaction.
UserTxBodyUnwrapped(c) ==
  /\ procs[c].pc = "u_body"
  /\ ~RowLocked(procs[c].user)
  /\ users' = IF procs[c].op = "reset"
              THEN [users EXCEPT ![procs[c].user].password = procs[c].password]
              ELSE users
  /\ \E ok \in Outcomes(faults), ended \in Outcomes(faults + 1) :
       /\ IF ok
          THEN Continue(c, [procs[c] EXCEPT !.pc = "u_commit",
                 !.deleted = IF procs[c].op = "reset" THEN sessions[procs[c].user] ELSE 0])
          ELSE Return(c, UserResult(procs[c].op, procs[c].user, procs[c].code,
                                    ExecTxErr("StatementFailed", ended)))
       /\ faults' = (IF ok THEN faults ELSE IF ended THEN faults + 1 ELSE faults + 2)
  /\ UNCHANGED << inventoryVars, sessions, verificationCodes, codeClock, calls >>

\* The statements of fn, in the transaction: for VerifyEmail MarkCodeAsUsed and
\* VerifyUserEmail, for ResetPassword UpdateUserPassword, MarkCodeAsUsed and
\* DeleteUserSessions (deleted is the number of sessions rows it finds). Their
\* writes stay in the transaction; a statement that returns an error ends fn and
\* ExecTx rolls back.
UserTxBody(c) ==
  /\ procs[c].pc = "u_body"
  /\ ~RowLocked(procs[c].user)
  /\ \E ok \in Outcomes(faults), ended \in Outcomes(faults + 1) :
       /\ IF ok
          THEN Continue(c, [procs[c] EXCEPT !.pc = "u_commit",
                 !.deleted = IF procs[c].op = "reset" THEN sessions[procs[c].user] ELSE 0])
          ELSE Return(c, UserResult(procs[c].op, procs[c].user, procs[c].code,
                                    ExecTxErr("StatementFailed", ended)))
       /\ faults' = (IF ok THEN faults ELSE IF ended THEN faults + 1 ELSE faults + 2)
  /\ UNCHANGED << inventoryVars, userVars, calls >>

\* ExecTx of VerifyEmail and ResetPassword: fn returned nil, Commit.
UserTxCommit(c) ==
  /\ procs[c].pc = "u_commit"
  /\ \E ended \in EndOutcomes :
       LET r == procs[c]
       IN /\ users' = IF ~ended THEN users
                      ELSE IF r.op = "reset"
                      THEN [users EXCEPT ![r.user].password = r.password]
                      ELSE [users EXCEPT ![r.user].isEmailVerified = TRUE]
          /\ verificationCodes' = IF ended
                                  THEN [verificationCodes EXCEPT ![r.row].isUsed = TRUE]
                                  ELSE verificationCodes
          /\ sessions' = IF ended THEN [sessions EXCEPT ![r.user] = @ - r.deleted]
                         ELSE sessions
          /\ Return(c, UserResult(r.op, r.user, r.code, ExecTxErr("ok", ended)))
          /\ faults' = Faulted(ended)
  /\ UNCHANGED << inventoryVars, codeClock, calls >>

\* Time passes: the oldest unexpired verification code reaches its expires_at.
CodeElapse ==
  /\ codeClock < Len(verificationCodes)
  /\ codeClock' = codeClock + 1
  /\ UNCHANGED << inventoryVars, users, sessions, verificationCodes, procs, last,
                  calls, faults >>

\* ------------------------------------------------------------ specification
Next ==
  \/ \E c \in Clients : InventoryBegin(c)
  \/ \E c \in Clients : InventoryCommit(c)
  \/ \E c \in Clients : PayBegin(c)
  \/ \E c \in Clients : PayLoop(c)
  \/ \E c \in Clients : PayCommit(c)
  \/ \E c \in Clients : CancelBegin(c)
  \/ \E c \in Clients : CancelLoop(c)
  \/ \E c \in Clients : CancelCommit(c)
  \/ \E c \in Clients : CreateBegin(c)
  \/ \E c \in Clients : CreateCheck(c)
  \/ \E c \in Clients : CreateLoop(c)
  \/ \E c \in Clients : CreateCommit(c)
  \/ Elapse
  \/ ReaperFetch
  \/ ReaperRead
  \/ ReaperCommit

Spec == Init /\ [][Next]_vars

\* The cleanup job's ticker keeps firing, and a run that has started goes on.
Reaper == ReaperFetch \/ ReaperRead \/ ReaperCommit

FairSpec == Spec /\ WF_vars(Reaper)

\* The direct calls of the inventory service, with every failure of ExecTx.
TxNext ==
  \/ \E c \in Clients : InventoryBegin(c)
  \/ \E c \in Clients : ExecTxEnd(c)

TxSpec == Init /\ [][TxNext]_vars

\* The stock checks, next to direct calls that write the records they read.
CheckNext ==
  \/ \E c \in Clients : BatchCheckBegin(c)
  \/ \E c \in Clients : BatchCheckItem(c)
  \/ \E c \in Clients : BatchCheckReturn(c)
  \/ \E c \in Clients : InventoryBegin(c)
  \/ \E c \in Clients : InventoryCommit(c)

CheckSpec == Init /\ [][CheckNext]_vars

\* The order service's calls that move an order's status.
OrderNext ==
  \/ \E c \in Clients : PayBegin(c)
  \/ \E c \in Clients : PayLoop(c)
  \/ \E c \in Clients : PayCommit(c)
  \/ \E c \in Clients : CancelBegin(c)
  \/ \E c \in Clients : CancelLoop(c)
  \/ \E c \in Clients : CancelCommit(c)
  \/ \E c \in Clients : ShipBegin(c)
  \/ \E c \in Clients : ShipCommit(c)
  \/ \E c \in Clients : CompleteBegin(c)
  \/ \E c \in Clients : CompleteCommit(c)
  \/ \E c \in Clients : UpdateOrderStatus(c)
  \/ \E c \in Clients : InventoryBegin(c)
  \/ \E c \in Clients : InventoryCommit(c)

OrderSpec == Init /\ [][OrderNext]_vars

\* The state after RestockInventory(product 1, 1), ReserveStock(product 1, 2,
\* order 1) and ReserveStock(product 1, 2, order 2) have committed one after the
\* other: both seed orders hold their units of product 1.
BothReserved ==
  /\ inventory = [p \in Products |->
                    IF p = 1
                    THEN [available |-> InitAvailable - 3, reserved |-> 4, version |-> 3]
                    ELSE [available |-> InitAvailable, reserved |-> 0, version |-> 0]]
  /\ reservations = [k \in ResKeys |->
                       IF k = <<1, 1>> THEN [quantity |-> 2, status |-> "active", seq |-> 1]
                       ELSE IF k = <<1, 2>>
                            THEN [quantity |-> 2, status |-> "active", seq |-> 2]
                            ELSE NoRes]
  /\ logs = SetToBag({ LogEntry("restock", 1, NoOrder, 1,
                                InitAvailable, InitAvailable + 1, 0, 0),
                       LogEntry("reserve", 1, 1, 2,
                                InitAvailable + 1, InitAvailable - 1, 0, 2),
                       LogEntry("reserve", 1, 2, 2,
                                InitAvailable - 1, InitAvailable - 3, 2, 4) })
  /\ supplied = [p \in Products |-> IF p = 1 THEN InitAvailable + 1 ELSE InitAvailable]

PayInit ==
  /\ BothReserved
  /\ orders = [o \in AllOrders |-> IF o \in SeedOrders THEN "pending" ELSE "absent"]
  /\ orderItems = SeedItems
  /\ nextOrderId = 3
  /\ clock = 0
  /\ procs = [c \in Clients |-> IdleProc]
  /\ last = NoLast
  /\ reaper = IdleReaper
  /\ calls = [c \in Clients |-> 0]
  /\ faults = 0
  /\ returned = {}
  /\ users = [u \in Users |-> [password |-> "p0", isEmailVerified |-> FALSE]]
  /\ sessions = [u \in Users |-> 0]
  /\ verificationCodes = << >>
  /\ codeClock = 0

\* PayOrder calls on orders whose units are reserved.
PayNext ==
  \/ \E c \in Clients : PayBegin(c)
  \/ \E c \in Clients : PayLoop(c)
  \/ \E c \in Clients : PayCommit(c)

PaySpec == PayInit /\ [][PayNext]_vars

\* The cleanup job with more expired reservations than a run fetches, next to the
\* direct calls that make the reservations; its ticker keeps firing.
BatchReaper == ReaperFetchBatch \/ ReaperReadOrFail \/ ReaperCommit

BatchNext ==
  \/ \E c \in Clients : InventoryBegin(c)
  \/ \E c \in Clients : InventoryCommit(c)
  \/ Elapse
  \/ ReaperFetchBatch
  \/ ReaperReadOrFail
  \/ ReaperCommit

BatchSpec == Init /\ [][BatchNext]_vars /\ WF_vars(BatchReaper)

\* The calls of the user service.
UserNext ==
  \/ \E c \in Clients : Login(c)
  \/ \E c \in Clients : CreateSession(c)
  \/ \E c \in Clients : ForgotPassword(c)
  \/ \E c \in Clients : SendEmailVerification(c)
  \/ \E c \in Clients : VerifyEmail(c)
  \/ \E c \in Clients : ResetPassword(c)
  \/ \E c \in Clients : UserTxBegin(c)
  \/ \E c \in Clients : UserTxBody(c)
  \/ \E c \in Clients : UserTxCommit(c)
  \/ CodeElapse

UserSpec == Init /\ [][UserNext]_vars

\* ----------------------------------------------------------------- claims
RECURSIVE HeldIn(_, _, _)
\* The total quantity of the reservations of product p, for the orders os, whose
\* status is in sts.
HeldIn(p, os, sts) ==
  IF os = {} THEN 0
  ELSE LET o == CHOOSE x \in os : TRUE
       IN (IF reservations[<<p, o>>].status \in sts
           THEN reservations[<<p, o>>].quantity ELSE 0)
          + HeldIn(p, os \ {o}, sts)

Held(p, sts) == HeldIn(p, AllOrders, sts)

\* C1 -- no oversell: in every reachable state, for each product, the quantity held
\* by the reservations that a successful ReserveStock created and that are active
\* or confirmed is at most the units ever made available for the product (initial
\* available stock plus restocked and positively adjusted units).
NoOversell ==
  \A p \in Products : Held(p, {"active", "confirmed"}) <= supplied[p]

\* C2 -- in every committed state, available >= 0 and reserved >= 0 for every
\* inventory record.
StockNonNegative ==
  \A p \in Products : inventory[p].available >= 0 /\ inventory[p].reserved >= 0

\* A record sold down to nothing available, with units still reserved.
StockExhausted ==
  \E p \in Products :
    inventory[p].available = 0 /\ inventory[p].reserved > 0 /\ inventory[p].version > 1

OnlyReserved(p) ==
  \A e \in BagToSet(logs) : e.product = p => e.changeType = "reserve"

\* C3 -- race safety: when ReserveStock calls are all that has run against a record
\* that had available = K, the quantities of the calls that returned success (each
\* left an active reservation) total at most K.
ReserveRaceSafe ==
  \A p \in Products : OnlyReserved(p) => Held(p, {"active"}) <= InitAvailable

\* The step that ends the direct call of client c to the inventory service.
InventoryReturns(c, ops) ==
  /\ procs[c].pc = "commit"
  /\ procs[c].op \in ops
  /\ procs'[c].pc = "idle"

\* C4 -- a ReserveStock whose guarded update matches no row, because the version
\* changed after its read, fails with ConcurrentUpdate and creates no reservation
\* and no log entry.
StaleReserveFails ==
  [][\A c \in Clients :
       ( /\ InventoryReturns(c, {"reserve"})
         /\ procs[c].rd.available >= procs[c].quantity
         /\ reservations[<<procs[c].product, procs[c].order>>].status = "none"
         /\ procs[c].rd.version # inventory[procs[c].product].version )
       => ( /\ last'.err = "ConcurrentUpdate"
            /\ reservations' = reservations
            /\ logs' = logs )]_vars

\* C5 -- DeductStock or ReleaseStock for a reservation that is not active fails
\* with InvalidStateTransition and leaves the inventory record as it was.
InactiveReservationRejected ==
  [][\A c \in Clients :
       ( /\ InventoryReturns(c, {"release", "deduct"})
         /\ reservations[<<procs[c].product, procs[c].order>>].status # "active" )
       => ( /\ last'.err = "InvalidStateTransition"
            /\ inventory'[procs[c].product] = inventory[procs[c].product] )]_vars

\* C6 -- the cleanup job's release of a reservation that is active and expired moves
\* its quantity from reserved to available and leaves its status expired.
ExpiredByReaper ==
  [][LET r == Head(reaper.batch)
         k == <<r.product, r.order>>
     IN ( /\ reaper.pc = "commit"
          /\ reaper' # reaper
          /\ reservations[k].status = "active"
          /\ Expired(reservations[k])
          /\ reaper.rd = inventory[r.product] )
        => ( /\ reservations'[k].status = "expired"
             /\ inventory'[r.product].available = inventory[r.product].available + r.quantity
             /\ inventory'[r.product].reserved = inventory[r.product].reserved - r.quantity )]_vars

\* C7 -- atomicity of CreateOrder: after a failed attempt no order row, order item,
\* reservation or log entry of that attempt remains committed (a stock change of
\* ReserveStock commits only together with its log entry).
CreateOrderAtomic ==
  (last.op = "create" /\ last.err # "ok" /\ last.order \in AllOrders)
  => ( /\ orders[last.order] = "absent"
       /\ orderItems[last.order] = << >>
       /\ \A p \in Products : reservations[<<p, last.order>>].status = "none"
       /\ \A e \in BagToSet(logs) : e.order # last.order )

\* An attempt that inserted its order row and failed in ReserveStock.
CreateFailedInReserve ==
  /\ last.op = "create"
  /\ last.order \in NewOrders
  /\ last.err = "CreateReservationFailed"

\* C8 -- atomicity of PayOrder: the inventory records and reservations change for a
\* PayOrder call only in the step that also makes its order paid, so that no state
\* has items deducted for an order that is still pending.
PayOrderAtomic ==
  [][\A c \in Clients :
       ( /\ procs[c].op = "pay"
         /\ procs'[c] # procs[c]
         /\ (inventory' # inventory \/ reservations' # reservations) )
       => orders'[procs[c].order] = "paid"]_vars

\* C9 -- when CancelOrder returns success for a pending order, every reservation of
\* the order is cancelled (none is left active).
CancelReleasesAll ==
  [][\A c \in Clients :
       ( /\ procs[c].op = "cancel"
         /\ procs'[c].pc = "idle"
         /\ orders[procs[c].order] = "pending"
         /\ last'.err = "ok" )
       => ( /\ orders'[procs[c].order] = "cancelled"
            /\ \A p \in Products :
                 reservations'[<<p, procs[c].order>>].status # "active" )]_vars

\* C10 -- the version of an inventory record never decreases, and every committed
\* change of the record leaves it strictly greater.
VersionIncreases ==
  [][\A p \in Products :
       /\ inventory'[p].version >= inventory[p].version
       /\ inventory'[p] # inventory[p]
          => inventory'[p].version > inventory[p].version]_vars

\* A record that two mutations have been committed to.
MutatedTwice ==
  \E p \in Products : inventory[p].version >= 2

\* The 'reserve' log entries of product p and order o.
ReserveLogs(p, o) ==
  {e \in BagToSet(logs) : e.changeType = "reserve" /\ e.product = p /\ e.order = o}

\* The direct call of c, about to commit, directly follows the successful
\* ReserveStock of the same product, quantity and order: that call returned last
\* and the record is as its update left it.
FollowsReserve(c, e) ==
  /\ last = Result("reserve", procs[c].product, procs[c].quantity, procs[c].order, "ok")
  /\ e \in ReserveLogs(procs[c].product, procs[c].order)
  /\ procs[c].rd = inventory[procs[c].product]
  /\ inventory[procs[c].product].available = e.afterAvailable
  /\ inventory[procs[c].product].reserved = e.afterReserved

\* C11 -- conservation: ReserveStock(q) followed immediately by ReleaseStock(q) for
\* the same product and order restores available and reserved to exactly their
\* values before the ReserveStock.
ReserveReleaseRestores ==
  [][\A c \in Clients : \A e \in BagToSet(logs) :
       (InventoryReturns(c, {"release"}) /\ FollowsReserve(c, e))
       => ( /\ last'.err = "ok"
            /\ inventory'[procs[c].product].available = e.beforeAvailable
            /\ inventory'[procs[c].product].reserved = e.beforeReserved )]_vars

\* A ReleaseStock has returned a record to the values its ReserveStock found.
ReleasedAfterReserve ==
  /\ last.op = "release"
  /\ last.err = "ok"
  /\ \E e \in ReserveLogs(last.product, last.order) :
       \E f \in BagToSet(logs) :
         /\ f.changeType = "release" /\ f.product = last.product /\ f.order = last.order
         /\ f.beforeAvailable = e.afterAvailable
         /\ f.beforeReserved = e.afterReserved
         /\ e.afterAvailable # e.beforeAvailable
         /\ inventory[last.product].available = e.beforeAvailable
         /\ inventory[last.product].reserved = e.beforeReserved

Terminal == {"confirmed", "cancelled", "expired"}

\* C12 -- once a reservation has left active (confirmed, cancelled or expired), no
\* step of any operation changes its status again.
TerminalIsAbsorbing ==
  [][\A k \in ResKeys :
       reservations[k].status \in Terminal
       => reservations'[k].status = reservations[k].status]_vars

\* ReleaseStock, and with it CancelReservation, has run last for an order with a
\* confirmed reservation.
ReleaseAfterConfirm ==
  /\ \A c \in Clients : procs[c].pc = "idle"
  /\ last.op = "release"
  /\ last.err = "ok"
  /\ reservations[<<last.product, last.order>>].status = "confirmed"

ActiveExpired(k) == reservations[k].status = "active" /\ Expired(reservations[k])

\* C13 -- with the cleanup job kept running, a reservation that is active past its
\* expiry eventually is no longer active, its quantity having been returned from
\* reserved to available (unless it was confirmed first).
ExpiredEventuallyReturned ==
  \A k \in ResKeys :
    [](ActiveExpired(k)
       => <>( /\ reservations[k].status # "active"
              /\ (k \in returned \/ reservations[k].status = "confirmed") ))

\* The step that ends the CreateOrder call of client c.
CreateReturns(c) ==
  /\ procs[c].op = "create"
  /\ procs'[c].pc = "idle"

\* C14 -- CreateOrder makes at most 3 attempts: it returns the 'failed after 3
\* retries' error exactly when its third attempt failed with the concurrent-update
\* error, and it never starts a fourth attempt.
CreateRetriesBounded ==
  [][\A c \in Clients :
       /\ procs'[c].attempt <= maxRetries
       /\ (CreateReturns(c) /\ last'.err = "FailedAfterRetries")
          => procs[c].attempt = maxRetries
       /\ CreateReturns(c) => last'.err # "ReserveFailed"
       /\ (procs[c].op = "create" /\ procs'[c].attempt > procs[c].attempt)
          => ( /\ procs'[c].attempt = procs[c].attempt + 1
               /\ procs'[c].pc = "co_check"
               /\ procs'[c].items = procs[c].req )]_vars

\* CreateOrder has given up after its attempts.
CreateGaveUp ==
  /\ last.op = "create"
  /\ last.err = "FailedAfterRetries"

ShortReserveRejected ==
  [][\A c \in Clients :
       (InventoryReturns(c, {"reserve"}) /\ procs[c].rd.available < procs[c].quantity)
       => ( /\ last'.err = "InsufficientStock"
            /\ inventory' = inventory
            /\ reservations' = reservations
            /\ logs' = logs )]_vars

\* A direct ReserveStock has been refused for insufficient stock.
ReserveRefused ==
  /\ last.op = "reserve"
  /\ last.err = "InsufficientStock"
  /\ inventory[last.product].available < last.quantity

\* The direct call of c commits with no other writer since its read.
Uncontended(c) == procs[c].rd = inventory[procs[c].product]

\* C17 -- a ReserveStock(product, q, order) that succeeds without contention on a
\* record (a, r, v) leaves it at (a - q, r + q, v + 1), creates exactly one
\* reservation (product, order, q) in status active and appends one 'reserve' log
\* entry.
ReserveEffect ==
  [][\A c \in Clients :
       (InventoryReturns(c, {"reserve"}) /\ Uncontended(c) /\ last'.err = "ok")
       => LET p == procs[c].product
              q == procs[c].quantity
              o == procs[c].order
          IN /\ inventory[p].available >= q
             /\ inventory' = [inventory EXCEPT ![p] =
                                [available |-> inventory[p].available - q,
                                 reserved |-> inventory[p].reserved + q,
                                 version |-> inventory[p].version + 1]]
             /\ reservations[<<p, o>>].status = "none"
             /\ reservations'[<<p, o>>].status = "active"
             /\ reservations'[<<p, o>>].quantity = q
             /\ \A k \in ResKeys \ {<<p, o>>} : reservations'[k] = reservations[k]
             /\ logs' = logs (+) SetToBag({LogEntry("reserve", p, o, q,
                                  inventory[p].available, inventory[p].available - q,
                                  inventory[p].reserved, inventory[p].reserved + q)})]_vars

\* The first ReserveStock on a record has succeeded.
FirstReserveDone ==
  /\ last.op = "reserve"
  /\ last.err = "ok"
  /\ reservations[<<last.product, last.order>>].status = "active"
  /\ inventory[last.product] = [available |-> InitAvailable - last.quantity,
                                reserved |-> last.quantity, version |-> 1]

\* C18 -- a DeductStock(product, q, order) that succeeds on an active reservation
\* decrements reserved by q, increments version by 1, sets the reservation to
\* confirmed and leaves available unchanged.
DeductEffect ==
  [][\A c \in Clients :
       ( /\ InventoryReturns(c, {"deduct"})
         /\ reservations[<<procs[c].product, procs[c].order>>].status = "active"
         /\ reservations[<<procs[c].product, procs[c].order>>].quantity = procs[c].quantity
         /\ last'.err = "ok" )
       => LET p == procs[c].product
          IN /\ inventory'[p] = [available |-> inventory[p].available,
                                 reserved |-> inventory[p].reserved - procs[c].quantity,
                                 version |-> inventory[p].version + 1]
             /\ reservations'[<<p, procs[c].order>>].status = "confirmed"]_vars

\* The cleanup job's ReleaseStock for the head of its batch fails.
ReaperReleaseFails ==
  /\ reaper.pc = "loop"
  /\ reaper' # reaper
  /\ reaper'.pc # "commit"

\* C19 -- in a run of the cleanup job, a ReleaseStock that fails leaves its
\* reservation as it was (still active and expired, so the next run fetches it
\* again), and the run goes on with the remaining fetched reservations and ends
\* normally.
ReaperSurvivesFailure ==
  [][ReaperReleaseFails
     => LET r == Head(reaper.batch)
            k == <<r.product, r.order>>
        IN /\ reaper' = AfterItem(Tail(reaper.batch))
           /\ reservations' = reservations
           /\ inventory' = inventory
           /\ logs' = logs
           /\ clock' = clock
           /\ reservations[k].status = "active"
              => \E i \in 1 .. Len(GetExpiredReservations(ReaperLimit)) :
                   GetExpiredReservations(ReaperLimit)[i] = r]_vars

\* The run has gone past a reservation that is still active and expired, to a later
\* one of its batch.
ReaperWentOn ==
  /\ reaper.pc = "loop"
  /\ \E k \in ResKeys :
       /\ ActiveExpired(k)
       /\ reservations[k].seq
            < reservations[<<Head(reaper.batch).product, Head(reaper.batch).order>>].seq

\* C20 -- every inventory operation (reserve, release, deduct, restock, adjust) that
\* commits appends exactly one log entry, one that fails appends none, and no step
\* modifies or removes an entry.
OneLogPerCommit ==
  [][/\ logs \sqsubseteq logs'
     /\ BagCardinality(logs') <= BagCardinality(logs) + 1
     /\ \A c \in Clients :
          InventoryReturns(c, InventoryOps)
          => IF last'.err = "ok"
             THEN /\ BagCardinality(logs') = BagCardinality(logs) + 1
                  /\ \E e \in BagToSet(logs') :
                       /\ e.changeType = procs[c].op
                       /\ e.product = procs[c].product
                       /\ CopiesIn(e, logs') = CopiesIn(e, logs) + 1
             ELSE logs' = logs]_vars

\* Two operations have been logged and a third has failed without an entry.
LoggedTwiceThenFailed ==
  /\ BagCardinality(logs) = 2
  /\ last.op \in InventoryOps
  /\ last.err \in {"InsufficientStock", "NegativeStock", "CreateReservationFailed"}
  /\ \A c \in Clients : calls[c] = CallsOf[c] /\ procs[c].pc = "idle"

\* C21 -- at most one reservation exists per (product, order): a ReserveStock for a
\* pair that already has a reservation (in any status) fails, and leaves the
\* inventory records (available, reserved, version), the existing reservation and
\* the log unchanged.
DuplicateReserveFails ==
  [][\A c \in Clients :
       ( /\ InventoryReturns(c, {"reserve"})
         /\ reservations[<<procs[c].product, procs[c].order>>].status # "none" )
       => ( /\ last'.err \in {"CreateReservationFailed", "InsufficientStock"}
            /\ inventory' = inventory
            /\ reservations' = reservations
            /\ logs' = logs )]_vars

\* A second ReserveStock for a pair, with enough stock for it, has failed on its
\* insert.
SecondReserveFailed ==
  /\ last.op = "reserve"
  /\ last.err = "CreateReservationFailed"
  /\ reservations[<<last.product, last.order>>].status = "active"
  /\ inventory[last.product].available >= last.quantity

\* C22 -- ExecTx commits all writes of fn when fn returns nil (a call that returns
\* nil has made exactly the writes of fn, one that returns an error has made none),
\* and when fn returns an error it discards all writes of fn and returns that same
\* error, unchanged.
ExecTxPropagates ==
  [][\A c \in Clients :
       (procs[c].pc = "commit" /\ procs'[c].pc = "idle")
       => LET r == procs[c]
              fn == InventoryTx(r.op, r.product, r.quantity, r.order, r.rd)
          IN IF fn.err = "ok"
             THEN IF last'.err = "ok"
                  THEN inventory' = fn.inv /\ reservations' = fn.res /\ logs' = fn.logs
                  ELSE inventory' = inventory /\ reservations' = reservations
                       /\ logs' = logs
             ELSE /\ inventory' = inventory
                  /\ reservations' = reservations
                  /\ logs' = logs
                  /\ last'.err = fn.err]_vars

\* The 'restock' entries of product p, as a bag.
RestockLogs(p) ==
  [e \in {x \in BagToSet(logs) : x.changeType = "restock" /\ x.product = p}
     |-> CopiesIn(e, logs)]

RECURSIVE Restocked(_, _)
\* The quantity that the entries es of the bag b add up to.
Restocked(b, es) ==
  IF es = {} THEN 0
  ELSE LET e == CHOOSE x \in es : TRUE
       IN e.quantityChange * b[e] + Restocked(b, es \ {e})

OnlyRestocked(p) ==
  \A e \in BagToSet(logs) : e.product = p => e.changeType = "restock"

\* C23 -- RestockInventory is an unconditional add that commutes: each call that
\* reaches its update succeeds and adds its quantity to the row as it is then,
\* whatever the call read and whatever committed in between, and leaves reserved
\* unchanged; so when RestockInventory calls, concurrent or not, are all that has
\* run on a record, available is the initial available plus all their quantities,
\* in either commit order.
RestockCommutes ==
  /\ [](\A p \in Products :
          OnlyRestocked(p)
          => /\ inventory[p].available
                  = InitAvailable + Restocked(RestockLogs(p), DOMAIN RestockLogs(p))
             /\ inventory[p].reserved = 0)
  /\ [][\A c \in Clients :
          InventoryReturns(c, {"restock"})
          => /\ last'.err = "ok"
             /\ inventory' = [inventory EXCEPT ![procs[c].product] =
                    [available |-> @.available + procs[c].quantity,
                     reserved |-> @.reserved,
                     version |-> @.version + 1]]]_vars

\* Two RestockInventory calls on one record have both read it before either
\* updated it, and both have returned.
RestockedConcurrently ==
  \E p \in Products :
    /\ last.op = "restock" /\ last.product = p /\ last.err = "ok"
    /\ \A c \in Clients : procs[c].pc = "idle"
    /\ \E e \in BagToSet(logs) :
         /\ e.changeType = "restock" /\ e.product = p
         /\ e.beforeAvailable = InitAvailable
         /\ CopiesIn(e, logs) = 2
    /\ inventory[p].available = InitAvailable + 2
    /\ inventory[p].version = 2

\* C24 -- AdjustStock(delta) with available + delta < 0 fails (negative stock) and
\* changes nothing; otherwise a call that returns success has set available to
\* available + delta, incremented version, left reserved unchanged and appended one
\* 'adjust' log entry, and a call that fails has changed nothing.
AdjustEffect ==
  [][\A c \in Clients :
       InventoryReturns(c, {"adjust"})
       => LET p == procs[c].product
              delta == procs[c].quantity
              rd == procs[c].rd
          IN IF rd.available + delta < 0
             THEN /\ last'.err = "NegativeStock"
                  /\ inventory' = inventory /\ reservations' = reservations
                  /\ logs' = logs
             ELSE IF last'.err = "ok"
             THEN /\ inventory' = [inventory EXCEPT ![p] =
                                     [available |-> rd.available + delta,
                                      reserved |-> inventory[p].reserved,
                                      version |-> inventory[p].version + 1]]
                  /\ BagCardinality(logs') = BagCardinality(logs) + 1
             ELSE /\ inventory' = inventory /\ reservations' = reservations
                  /\ logs' = logs]_vars

\* C25 -- CheckStockAvailability and BatchCheckStockAvailability change no
\* inventory record, reservation or log entry, and the response reports, for each
\* requested item, isAvailable exactly when the available stock was >= the item's
\* quantity at the time of that item's read.
StockCheckReports ==
  [][\A c \in Clients :
       (procs[c].pc = "check" /\ procs'[c] # procs[c])
       => /\ inventory' = inventory
          /\ reservations' = reservations
          /\ logs' = logs
          /\ procs'[c].pc = "idle"
             => \A i \in 1 .. Len(procs[c].req) :
                  LET it == procs[c].req[i]
                  IN /\ it.product \in DOMAIN procs[c].checks
                     /\ procs[c].checks[it.product].isAvailable
                          <=> procs[c].reads[i] >= it.quantity]_vars

\* The request that the call arriving in this step carries.
Asked(c) == IF procs'[c].pc = "idle" THEN last' ELSE procs'[c]

CodeType(op) == IF op = "verify" THEN "email_verification" ELSE "password_reset"

\* No row for the email, code and type is both unused and unexpired.
NoUsableCode(u, code, type) ==
  \A i \in 1 .. Len(verificationCodes) :
    ( /\ verificationCodes[i].user = u
      /\ verificationCodes[i].code = code
      /\ verificationCodes[i].type = type )
    => (verificationCodes[i].isUsed \/ CodeExpired(i))

\* C26 -- VerifyEmail and ResetPassword with a code that does not exist, is already
\* used, or has expired return an error without starting the transaction: no code
\* is marked used, no user's email-verified flag or password changes and no session
\* is deleted.
BadCodeRejected ==
  [][\A c \in Clients :
       ( /\ calls'[c] # calls[c]
         /\ Asked(c).op \in {"verify", "reset"}
         /\ NoUsableCode(Asked(c).user, Asked(c).code, CodeType(Asked(c).op)) )
       => ( /\ procs'[c].pc = "idle"
            /\ last'.err \in {"InvalidCode", "CodeExpired"}
            /\ faults' = faults
            /\ users' = users
            /\ sessions' = sessions
            /\ verificationCodes' = verificationCodes )]_vars

\* A call with a code that an earlier call has used up has been turned down.
UsedCodeRejected ==
  /\ last.op \in {"verify", "reset"}
  /\ last.err = "InvalidCode"
  /\ \E i \in 1 .. Len(verificationCodes) :
       /\ verificationCodes[i].user = last.user
       /\ verificationCodes[i].code = last.code
       /\ verificationCodes[i].type = CodeType(last.op)
       /\ verificationCodes[i].isUsed

\* C27 -- ResetPassword applies the password update, the marking of the code as used
\* and the deletion of the user's sessions as one atomic unit: the step in which it
\* returns success makes all three visible together, and no other step of the call
\* changes a user, a code or a session; a call whose transaction fails returns an
\* error and leaves none of the three.
ResetIsAtomic ==
  [][\A c \in Clients :
       (procs[c].op = "reset" /\ procs'[c] # procs[c])
       => LET r == procs[c]
          IN IF procs'[c].pc = "idle" /\ last'.err = "ok"
             THEN /\ users' = [users EXCEPT ![r.user].password = r.password]
                  /\ verificationCodes'
                       = [verificationCodes EXCEPT ![r.row].isUsed = TRUE]
                  /\ sessions' = [sessions EXCEPT ![r.user] = @ - r.deleted]
                  /\ r.pc = "u_commit"
             ELSE /\ users' = users
                  /\ verificationCodes' = verificationCodes
                  /\ sessions' = sessions]_vars

\* A ResetPassword has succeeded: the password is the new one, the code is used and
\* the user has no session.
ResetDone ==
  /\ last.op = "reset"
  /\ last.err = "ok"
  /\ users[last.user].password = "p1"
  /\ sessions[last.user] = 0
  /\ \E i \in 1 .. Len(verificationCodes) :
       /\ verificationCodes[i].user = last.user
       /\ verificationCodes[i].code = last.code
       /\ verificationCodes[i].isUsed

\* C28 -- an order is paid only if every one of its line items has a reservation
\* that PayOrder found active and turned into confirmed; PayOrder for a pending
\* order whose reservations have been released does not succeed.
PaidHasConfirmed ==
  \A o \in AllOrders :
    orders[o] = "paid"
    => \A i \in 1 .. Len(orderItems[o]) :
         reservations[<<orderItems[o][i].product, o>>].status = "confirmed"

\* PayOrder is running or has run for order o, and no DeductStock was called
\* directly.
PayOrderRan(o) ==
  /\ orders[o] = "paid" \/ \E c \in Clients : procs[c].op = "pay" /\ procs[c].order = o
  /\ last.op # "deduct"
  /\ \A c \in Clients : procs[c].op # "deduct"

\* C29 -- when the cleanup job's release and PayOrder's deduct race on one
\* reservation, exactly one of them takes effect: once PayOrder has confirmed the
\* reservation, the release that the cleanup job runs for it changes no inventory
\* record, and once a release has cancelled it and returned its units, PayOrder's
\* deduct for it changes no inventory record (so the reservation ends confirmed
\* with available unchanged, or cancelled with its units available again, and
\* reserved is not decreased twice for it).
ReleaseDeductExclusive ==
  [][/\ LET r == Head(reaper.batch)
        IN ( /\ reaper.pc = "commit"
             /\ reaper' # reaper
             /\ reservations[<<r.product, r.order>>].status = "confirmed"
             /\ PayOrderRan(r.order) )
           => inventory' = inventory
     /\ \A c \in Clients :
          LET it == Head(procs[c].items)
          IN ( /\ procs[c].pc = "pay_commit"
               /\ procs'[c] # procs[c]
               /\ reservations[<<it.product, procs[c].order>>].status = "cancelled"
               /\ <<it.product, procs[c].order>> \in returned )
             => inventory' = inventory]_vars

\* C30 -- ReleaseStock(product, q, order) and DeductStock(product, q, order) change
\* the status of the reservation for that (product, order) pair only: every other
\* reservation, those of the same order for other products included, keeps its
\* status.
OnlyOwnReservationChanges ==
  [][/\ \A c \in Clients :
          InventoryReturns(c, {"release", "deduct"})
          => \A k \in ResKeys \ {<<procs[c].product, procs[c].order>>} :
               reservations'[k].status = reservations[k].status
     /\ \A c \in Clients :
          (procs[c].pc \in {"pay_commit", "cancel_commit"} /\ procs'[c] # procs[c])
          => \A k \in ResKeys \ {<<Head(procs[c].items).product, procs[c].order>>} :
               reservations'[k].status = reservations[k].status
     /\ (reaper.pc = "commit" /\ reaper' # reaper)
        => \A k \in ResKeys \ {<<Head(reaper.batch).product, Head(reaper.batch).order>>} :
             reservations'[k].status = reservations[k].status]_vars

\* The moves of an order's status that the order service's checks let through:
\* CancelOrder turns away completed and cancelled orders only.
StatusMoves ==
  { <<"pending", "paid">>, <<"paid", "shipped">>, <<"shipped", "completed">> }
  \cup { <<st, "cancelled">> : st \in OrderStatuses \ {"completed", "cancelled"} }

StatusCalls == {"pay", "ship", "complete", "cancel"}

StatusRejections == {"CannotPay", "CannotShip", "CannotComplete", "CannotCancel"}

\* C31: a step of PayOrder, ShipOrder, CompleteOrder or CancelOrder that changes an
\* order's status moves it from pending to paid, from paid to shipped, from shipped
\* to completed, or to cancelled from a status other than completed and cancelled;
\* and a call that is rejected for the order's status changes no order status,
\* inventory record, reservation or log entry.
StatusMovesForward ==
  [][ /\ \A o \in AllOrders :
           (orders'[o] # orders[o] /\ last'.op \in StatusCalls)
             => <<orders[o], orders'[o]>> \in StatusMoves
      /\ (last' # last /\ last'.err \in StatusRejections)
           => UNCHANGED << orders, inventory, reservations, logs >> ]_vars

\* C32: the log entry that a committing operation writes carries, as before values,
\* the available and reserved of the record just before the operation's update and,
\* as after values, those just after it, whatever other operations committed
\* between the operation's read and its update.
LogReflectsUpdate ==
  [][\A e \in BagToSet(logs') :
       logs' = logs (+) SetToBag({e})
       => /\ e.beforeAvailable = inventory[e.product].available
          /\ e.beforeReserved = inventory[e.product].reserved
          /\ e.afterAvailable = inventory'[e.product].available
          /\ e.afterReserved = inventory'[e.product].reserved]_vars

\* reserved_stock of every record is the total of its active reservations.
ReservedIsActive == \A p \in Products : inventory[p].reserved = Held(p, {"active"})

\* The step finishes a release or a deduct, by a direct call, by PayOrder, by
\* CancelOrder or by the cleanup job, for a reservation that is not active.
OnInactive ==
  \/ \E c \in Clients :
       /\ procs'[c] # procs[c]
       /\ \/ /\ procs[c].pc = "commit"
             /\ procs[c].op \in {"release", "deduct"}
             /\ reservations[<<procs[c].product, procs[c].order>>].status # "active"
          \/ /\ procs[c].pc \in {"pay_commit", "cancel_commit"}
             /\ reservations[<<Head(procs[c].items).product, procs[c].order>>].status
                  # "active"
  \/ /\ reaper.pc = "commit"
     /\ reaper' # reaper
     /\ reservations[<<Head(reaper.batch).product, Head(reaper.batch).order>>].status
          # "active"

\* No RestockInventory or AdjustStock has committed.
NeverRestocked == \A e \in BagToSet(logs) : e.changeType \notin {"restock", "adjust"}

\* C33: a step from a state where, for every product, reserved is the total
\* quantity of the product's active reservations leads to such a state again,
\* when no restock or adjust has run and a release or deduct that the step
\* finishes is for an active reservation (whose quantity is the one the call is
\* made with).
ReservedTracksActive ==
  [][(ReservedIsActive /\ NeverRestocked /\ ~OnInactive) => ReservedIsActive']_vars

\* The reservations that the step finishes a ReleaseStock for: by a direct call,
\* by CancelOrder or by the cleanup job.
ReleasedNow ==
  { <<procs[c].product, procs[c].order>> :
      c \in { d \in Clients : /\ procs[d].pc = "commit"
                              /\ procs[d].op = "release"
                              /\ procs'[d] # procs[d] } }
  \cup { <<Head(procs[c].items).product, procs[c].order>> :
           c \in { d \in Clients : procs[d].pc = "cancel_commit" /\ procs'[d] # procs[d] } }
  \cup (IF reaper.pc = "commit" /\ reaper' # reaper
        THEN { <<Head(reaper.batch).product, Head(reaper.batch).order>> }
        ELSE {})

\* C34: the quantity of a reservation is moved back to available at most once: a
\* ReleaseStock (by the cleanup job, by CancelOrder or direct) for a reservation
\* whose quantity an earlier release has moved back does not increase available.
ReturnedAtMostOnce ==
  [][\A k \in ReleasedNow :
       k \in returned => inventory'[k[1]].available <= inventory[k[1]].available]_vars

\* The record r after the stock update of op for the amount q took effect.
Updated(op, r, q) ==
  CASE op = "reserve" -> [available |-> r.available - q, reserved |-> r.reserved + q,
                          version |-> r.version + 1]
    [] op = "release" -> [available |-> r.available + q, reserved |-> r.reserved - q,
                          version |-> r.version + 1]
    [] op = "deduct"  -> [available |-> r.available, reserved |-> r.reserved - q,
                          version |-> r.version + 1]
    [] op = "adjust"  -> [available |-> r.available + q, reserved |-> r.reserved,
                          version |-> r.version + 1]

\* C35: a ReserveStock, ReleaseStock, DeductStock or AdjustStock that returns
\* success, or that creates or changes a reservation or writes a log entry, has
\* applied its stock update: the counters of the record changed by the requested
\* amount and its version went up by 1.
SuccessHasEffect ==
  [][\A c \in Clients :
       ( /\ InventoryReturns(c, {"reserve", "release", "deduct", "adjust"})
         /\ \/ last'.err = "ok"
            \/ reservations' # reservations
            \/ logs' # logs )
       => inventory'[procs[c].product]
            = Updated(procs[c].op, inventory[procs[c].product], procs[c].quantity)]_vars

\* C36: PayOrder calls, concurrent ones on one order included, take the units of
\* a line out of reserved at most once: reserved never falls below the units of
\* the reservations that are still active (those no PayOrder has deducted).
PaidOnce == \A p \in Products : inventory[p].reserved >= Held(p, {"active"})

\* C37: an AdjustStock whose record was changed by another committed operation
\* between its read and its update leaves the record as that operation left it
\* and does not return success.
AdjustNotLost ==
  [][\A c \in Clients :
       ( /\ InventoryReturns(c, {"adjust"})
         /\ inventory[procs[c].product].version # procs[c].rd.version )
       => /\ inventory' = inventory
          /\ last'.err # "ok"]_vars

\* The cleanup job is at reservation k: its run's next ReleaseStock is for k, or is
\* under way.
Attempting(k) ==
  /\ reaper.pc \in {"loop", "commit"}
  /\ <<Head(reaper.batch).product, Head(reaper.batch).order>> = k

\* C38: with more expired active reservations than a run of the cleanup job
\* fetches, every reservation that is active past its expiry is eventually
\* attempted by a run (or is no longer active), also when the releases of older
\* ones keep failing.
NoReaperStarvation ==
  \A k \in ResKeys :
    ActiveExpired(k) ~> (Attempting(k) \/ reservations[k].status # "active")

\* C39: a verification code is consumed at most once: a ResetPassword or
\* VerifyEmail that returns success found its code row unused when it committed,
\* so of two calls that present the same code at most one succeeds.
CodeConsumedOnce ==
  [][\A c \in Clients :
       ( /\ procs[c].pc = "u_commit"
         /\ procs'[c].pc = "idle"
         /\ last'.err = "ok" )
       => ~verificationCodes[procs[c].row].isUsed]_vars
====
